---- MODULE Spec2Model ----
(***************************************************************************)
(* State-machine model of the host telemetry collector:                    *)
(*   src/monitor.py         the terminal monitor (sampler loop, CSVLogger   *)
(*                          writer thread, AlertManager)                    *)
(*   src/system_monitor.py  the web monitor (background sampler that writes *)
(*                          the CSV itself, timed rates, top-K lists)       *)
(*                                                                          *)
(* Units.  Clock readings (time.time()) are integers in deciseconds, so    *)
(* the 0.1 s guard of the web monitor is one tick.  Cumulative byte        *)
(* counters are drawn from whole multiples of 1024**2 bytes and resident   *)
(* sizes from whole multiples of 1024**3 bytes, so the divisions of the    *)
(* code are exact; percentages are whole numbers, so round(x, 1) leaves    *)
(* them as they are.                                                       *)
(***************************************************************************)
EXTENDS Integers, Sequences, FiniteSets, TLC

VARIABLES
    program,          \* which monitor runs: "terminal" (monitor.py) | "web" (system_monitor.py)
    pc_main,          \* "running" | "exiting" (q pressed) | "exited" | "raised" (uncaught exception) | "down" (killed)
    cycles,           \* number of sampling cycles started so far (stamps each row)
    history,          \* history: Dict[str, deque]
    net_io_prev,      \* net_io_prev dictionary
    disk_io_prev,     \* disk_io_prev dictionary (web monitor only)
    last_alert_time,  \* AlertManager.last_alert_time / last_sent
    alert_threads,    \* the alert threads started so far, oldest first
    current,          \* what the last completed collect_data returned
    obs,              \* what the sources returned to the last cycle
    log_queue,        \* log_queue = deque(maxlen=...)
    pc_writer,        \* CSVLogger.run position
    write_header,     \* CSVLogger.run local write_header
    row,              \* CSVLogger.run local row
    file_exists,      \* os.path.exists(LOG_FILE)
    file,             \* rows of LOG_FILE on disk, first to last
    buffer,           \* rows written to the file object of CSVLogger.run and not yet flushed
    turn              \* the last turn of the sampler loop: when it started, how long its
                      \* cycle took as measured, and how long it slept

vars == <<program, pc_main, cycles, history, net_io_prev, disk_io_prev, last_alert_time,
          alert_threads, current, obs, log_queue, pc_writer, write_header, row,
          file_exists, file, buffer, turn>>

----------------------------------------------------------------------------
(* Configuration *)

\* seconds between alerts
ALERT_COOLDOWN == 300
CPU_THRESHOLD == 90
RAM_THRESHOLD == 90
DISK_THRESHOLD == 95
\* clock ticks per second (the clock is read in deciseconds)
TICKS == 10
\* the 0.1 s floor of the elapsed time, in ticks
MIN_INTERVAL == 1
\* 1024 ** 2
MB == 1048576
\* top-K length of the web monitor
TOP_K == 5
\* seconds between two cycles
REFRESH_INTERVAL == 1

\* deque(maxlen=MAX_HISTORY); 200 in the source, scaled down
MAX_HISTORY == 3
\* deque(maxlen=1000) of main; scaled down
LOG_QUEUE_MAXLEN == 2
\* the sampler runs at most this many cycles
MaxCycles == 4
\* cycles explored where the clock and the load vary
MaxGateCycles == 3
\* cycles explored where the cumulative counters vary
MaxRateCycles == 3
\* cycles explored where the enumerated processes vary
MaxProcCycles == 2

\* PROCESS_FILTER = None
PROCESS_FILTER == <<>>

----------------------------------------------------------------------------
(* Python values *)

\* Optional values: None is <<>>, a value v is <<v>>.
None == <<>>
Some(v) == <<v>>

EmptyDict == [k \in {} |-> 0]

\* max(a, b)
Max(a, b) == IF a >= b THEN a ELSE b

\* d.get(k, default)
DictGet(d, k, default) == IF k \in DOMAIN d THEN d[k] ELSE default

\* d[k] = v
DictSet(d, k, v) == [x \in (DOMAIN d) \cup {k} |-> IF x = k THEN v ELSE d[x]]

\* faulty variants: a full deque refuses the new item; a deque without maxlen
deque_append_drop_newest(q, v, m) ==
    IF Len(q) >= m THEN q ELSE Append(q, v)
deque_append_unbounded(q, v, m) == Append(q, v)

\* deque(maxlen=m).append(v): a full deque discards its leftmost item
deque_append(q, v, m) ==
    IF m = 0 THEN q
    ELSE IF Len(q) = m THEN Append(Tail(q), v)
    ELSE Append(q, v)

----------------------------------------------------------------------------
(* AlertManager *)

\* faulty variant: every check stamps the time, permitted or not
should_send_stamp_always(now, last) ==
    [ok |-> now - last >= ALERT_COOLDOWN * TICKS, last |-> now]

\* faulty variant: the permitted fire is not stamped
should_send_no_stamp(now, last) ==
    [ok |-> now - last >= ALERT_COOLDOWN * TICKS, last |-> last]

\* should_send / can_send: the verdict and the timestamp left behind
should_send(now, last) ==
    IF now - last >= ALERT_COOLDOWN * TICKS
    THEN [ok |-> TRUE, last |-> now]
    ELSE [ok |-> FALSE, last |-> last]

\* faulty variant: the operands of the and are swapped, so the gate is asked
\* (and stamps) also when the alerts list is empty
gate_check_gate_first(alerts, now, last) ==
    [ok |-> should_send(now, last).ok /\ alerts # <<>>, last |-> should_send(now, last).last]

\* if alerts and alert_manager.should_send(): the gate is asked only when the
\* alerts list is not empty
gate_check(alerts, now, last) ==
    IF alerts # <<>> THEN should_send(now, last) ELSE [ok |-> FALSE, last |-> last]

AlertLine(metric, value) == [metric |-> metric, value |-> value]

\* faulty variant: the list stops at the first metric found over its threshold
Alerts_first_only(cpu, ram, disk) ==
    IF cpu > CPU_THRESHOLD THEN <<AlertLine("CPU", cpu)>>
    ELSE IF ram > RAM_THRESHOLD THEN <<AlertLine("RAM", ram)>>
    ELSE IF disk > DISK_THRESHOLD THEN <<AlertLine("Disk", disk)>>
    ELSE <<>>

\* the alerts list of collect_data: one line per metric strictly above its
\* threshold, in the order CPU, RAM, Disk
Alerts(cpu, ram, disk) ==
    (IF cpu > CPU_THRESHOLD THEN <<AlertLine("CPU", cpu)>> ELSE <<>>)
    \o (IF ram > RAM_THRESHOLD THEN <<AlertLine("RAM", ram)>> ELSE <<>>)
    \o (IF disk > DISK_THRESHOLD THEN <<AlertLine("Disk", disk)>> ELSE <<>>)

\* faulty variant: the target is called in the thread of the caller
call_inline(at, ts, alerts) ==
    [at |-> at, ts |-> ts, alerts |-> alerts, state |-> "started", tries |-> 0,
     caller_waits |-> TRUE]

\* threading.Thread(target=send_email, args=(subject, body), daemon=True).start():
\* the thread as it is left by start(), which returns to the caller at once.
\* at is the clock reading of the gate, ts and alerts make up the body;
\* tries counts the calls of the transport the thread has made.
Thread_start(at, ts, alerts) ==
    [at |-> at, ts |-> ts, alerts |-> alerts, state |-> "started", tries |-> 0,
     caller_waits |-> FALSE]

\* a call the sampler made itself has not returned
CallerWaits(threads) ==
    \E i \in 1..Len(threads) :
        threads[i].caller_waits /\ threads[i].state \in {"started", "sending"}

----------------------------------------------------------------------------
(* Process enumeration *)

\* What psutil.process_iter yields for one process: the fields of p.info, each
\* None when the read was denied (ad_value), and exc, the psutil exception that
\* reading the process raises ("" when none).  A process that exited before it
\* was read is not yielded at all.
ProcInfo(pid, name, cpu, mem, exc) ==
    [pid |-> pid, name |-> name, cpu |-> cpu, mem |-> mem, exc |-> exc]

\* PROCESS_FILTER.lower() in name.lower(), for the names the model draws
NameMatches(filter, name) == filter = name

\* x or 0
OrZero(x) == IF x = None THEN 0 ELSE x[1]

\* One iteration of the "Filtered Processes" loop of monitor.py.  Only the
\* psutil exceptions are caught: None.lower() and None.rss raise AttributeError,
\* which leaves the loop and collect_data.
filtered_step(acc, p) ==
    IF acc.raised THEN acc
    ELSE IF p.exc # "" THEN acc
    ELSE IF PROCESS_FILTER # None /\ p.name = None THEN [acc EXCEPT !.raised = TRUE]
    ELSE IF PROCESS_FILTER # None /\ ~NameMatches(PROCESS_FILTER, p.name) THEN acc
    ELSE IF p.mem = None
         THEN [acc EXCEPT !.cpu = @ + OrZero(p.cpu), !.raised = TRUE]
         ELSE [acc EXCEPT !.cpu = @ + OrZero(p.cpu), !.ram = @ + p.mem[1]]

RECURSIVE filtered_loop(_, _)
filtered_loop(acc, procs) ==
    IF procs = <<>> THEN acc
    ELSE filtered_loop(filtered_step(acc, Head(procs)), Tail(procs))

\* filtered_cpu, filtered_ram_gb of monitor.py, or raised
filtered(procs) == filtered_loop([cpu |-> 0, ram |-> 0, raised |-> FALSE], procs)

----------------------------------------------------------------------------
(* collect_data of monitor.py *)

\* history.setdefault(key, deque(maxlen=MAX_HISTORY)).append(value)
history_push(h, key, value) ==
    DictSet(h, key, deque_append(DictGet(h, key, <<>>), value, MAX_HISTORY))

RECURSIVE history_push_all(_, _)
history_push_all(h, kvs) ==
    IF kvs = <<>> THEN h
    ELSE history_push_all(history_push(h, Head(kvs)[1], Head(kvs)[2]), Tail(kvs))

\* faulty variant: a reading below the stored one is not stored
store_reading_if_higher(prev, key, cur) ==
    IF key \in DOMAIN prev /\ cur < prev[key] THEN prev ELSE DictSet(prev, key, cur)

\* net_io_prev["sent"] = net_io.bytes_sent: the reading becomes the baseline
store_reading(prev, key, cur) == DictSet(prev, key, cur)

\* Network delta: MB sent or received since the last check
net_delta(cur, prev, key) == (cur - DictGet(prev, key, 0)) \div MB

\* The inputs of one cycle: the clock, the system metrics, the cumulative
\* network counters and the enumerated processes.
Obs(t, cpu, ram, disk, sent, recv, procs) ==
    [t |-> t, cpu |-> cpu, ram |-> ram, disk |-> disk,
     sent |-> sent, recv |-> recv, procs |-> procs]

\* collect_data(history, net_io_prev, log_queue) as a function of the state it
\* reads and of what the sources return: the state it leaves and what it
\* returns.  When the process loop raises, only net_io_prev has been assigned.
collect_data(in, n) ==
    LET sent_mb == net_delta(in.sent, net_io_prev, "sent")
        recv_mb == net_delta(in.recv, net_io_prev, "recv")
        net     == store_reading(store_reading(net_io_prev, "sent", in.sent),
                                 "recv", in.recv)
        f       == filtered(in.procs)
        ts      == in.t \div TICKS
        h       == history_push_all(history,
                      << <<"cpu", in.cpu>>, <<"ram", in.ram>>, <<"disk", in.disk>>,
                         <<"net_sent", sent_mb>>, <<"net_recv", recv_mb>>,
                         <<"filtered_cpu", f.cpu>>, <<"filtered_ram", f.ram>> >>)
        alerts  == Alerts(in.cpu, in.ram, in.disk)
        gate    == gate_check(alerts, in.t, last_alert_time)
        values  == [ts |-> ts, cpu |-> in.cpu, ram |-> in.ram, disk |-> in.disk,
                    net_sent |-> sent_mb, net_recv |-> recv_mb,
                    filtered_cpu |-> f.cpu, filtered_ram |-> f.ram]
    IN  IF f.raised
        THEN [raised |-> TRUE, net_io_prev |-> net, history |-> history,
              last_alert_time |-> last_alert_time, alert_threads |-> alert_threads,
              csv_row |-> None, current |-> current]
        ELSE [raised |-> FALSE, net_io_prev |-> net, history |-> h,
              last_alert_time |-> gate.last,
              alert_threads |->
                  IF gate.ok
                  THEN Append(alert_threads, Thread_start(in.t, ts, alerts))
                  ELSE alert_threads,
              csv_row |-> Some([seq |-> n] @@ values),
              current |-> values]

----------------------------------------------------------------------------
(* main of monitor.py *)

\* a turn of the sampler loop that started at clock reading start, measured
\* elapsed ticks for its cycle and then slept for slept ticks
Turn(start, elapsed, slept) == [start_time |-> start, elapsed |-> elapsed, slept |-> slept]

\* time.sleep(max(0, REFRESH_INTERVAL - elapsed)), in ticks
main_sleep(elapsed) == Max(0, REFRESH_INTERVAL * TICKS - elapsed)

\* One turn of the while loop: start_time = time.time(), collect_data,
\* log_queue.append(result["csv_row"]), the dashboard, then the sleep; d is the
\* time the turn took up to the second time.time().  An exception of
\* collect_data ends main.
main_cycle(t, cpu, ram, disk, sent, recv, procs, d) ==
    /\ program = "terminal"
    /\ pc_main = "running"
    /\ ~CallerWaits(alert_threads)
    /\ cycles < MaxCycles
    /\ LET in == Obs(t, cpu, ram, disk, sent, recv, procs)
           r  == collect_data(in, cycles + 1)
       IN  /\ cycles' = cycles + 1
           /\ obs' = in
           /\ net_io_prev' = r.net_io_prev
           /\ history' = r.history
           /\ last_alert_time' = r.last_alert_time
           /\ alert_threads' = r.alert_threads
           /\ current' = r.current
           /\ IF r.raised
              THEN /\ pc_main' = "raised"
                   /\ log_queue' = log_queue
                   /\ turn' = Turn(t, 0, 0)
              ELSE /\ pc_main' = pc_main
                   /\ log_queue' = deque_append(log_queue, r.csv_row[1], LOG_QUEUE_MAXLEN)
                   /\ turn' = Turn(t, d, main_sleep(d))
    /\ UNCHANGED <<buffer, program, disk_io_prev, pc_writer, write_header, row, file_exists, file>>

\* key == ord('q'): break.  getch is reached at the end of a turn of the loop.
main_quit ==
    /\ program = "terminal"
    /\ pc_main = "running"
    /\ ~CallerWaits(alert_threads)
    /\ cycles >= 1
    /\ pc_main' = "exiting"
    /\ UNCHANGED <<turn, buffer, program, cycles, history, net_io_prev, disk_io_prev, last_alert_time,
                   alert_threads, current, obs, log_queue, pc_writer, write_header,
                   row, file_exists, file>>

\* main has returned and the interpreter exits: the daemon threads (the
\* CSVLogger, the alert threads) end where they are; nothing joins them.
process_exit ==
    /\ pc_main = "exiting"
    /\ pc_main' = "exited"
    /\ UNCHANGED <<turn, buffer, program, cycles, history, net_io_prev, disk_io_prev, last_alert_time,
                   alert_threads, current, obs, log_queue, pc_writer, write_header,
                   row, file_exists, file>>

----------------------------------------------------------------------------
(* AlertManager.send_email of monitor.py, AlertManager.send of system_monitor.py *)

\* the daemon threads run while the process lives
ProcessAlive == pc_main \in {"running", "exiting"}

\* server = smtplib.SMTP(SMTP_SERVER, SMTP_PORT) is called: the one use of the
\* transport.  The call may return, raise, or never return.
smtp_call(th) == [th EXCEPT !.state = "sending", !.tries = @ + 1]

\* faulty variant: a failed send is tried again
send_email_retry(th, ok) ==
    [th EXCEPT !.state = IF ok THEN "sent" ELSE "started"]

\* the end of send_email: print("[ALERT SENT] ...") when the transport
\* returned, print("[EMAIL FAILED] ...") in the except branch when it raised;
\* the function returns and the thread ends
send_email(th, ok) ==
    [th EXCEPT !.state = IF ok THEN "sent" ELSE "failed"]

alert_thread_call ==
    /\ ProcessAlive
    /\ \E i \in 1..Len(alert_threads) :
           /\ alert_threads[i].state = "started"
           /\ alert_threads' = [alert_threads EXCEPT ![i] = smtp_call(@)]
    /\ UNCHANGED <<turn, buffer, program, pc_main, cycles, history, net_io_prev, disk_io_prev,
                   last_alert_time, current, obs, log_queue, pc_writer, write_header,
                   row, file_exists, file>>

alert_thread_return ==
    /\ ProcessAlive
    /\ \E i \in 1..Len(alert_threads), ok \in BOOLEAN :
           /\ alert_threads[i].state = "sending"
           /\ alert_threads' = [alert_threads EXCEPT ![i] = send_email(@, ok)]
    /\ UNCHANGED <<turn, buffer, program, pc_main, cycles, history, net_io_prev, disk_io_prev,
                   last_alert_time, current, obs, log_queue, pc_writer, write_header,
                   row, file_exists, file>>

alert_thread_step == alert_thread_call \/ alert_thread_return

----------------------------------------------------------------------------
(* CSVLogger.run of monitor.py *)

\* the header row; data rows carry seq >= 1
HEADER ==
    [seq |-> 0,
     columns |-> <<"timestamp", "cpu_percent", "ram_percent", "ram_used_gb",
                   "disk_percent", "net_sent_mb", "net_recv_mb", "process_count",
                   "filtered_cpu", "filtered_ram_gb">>]
IsHeader(r) == r.seq = 0

\* the thread runs while the process lives
WriterAlive == program = "terminal" /\ pc_main \in {"running", "exiting"}

\* write_header = not os.path.exists(LOG_FILE)
header_needed(exists) == ~exists

\* faulty variant: self.queue.pop(), which takes the newest item
pop_right(q) == [item |-> q[Len(q)], rest |-> SubSeq(q, 1, Len(q) - 1)]

\* self.queue.popleft(): the item taken and the queue left
popleft(q) == [item |-> Head(q), rest |-> Tail(q)]

\* faulty variant: the file is opened with the default block buffering, so a
\* row stays in the buffer of the file object
writerow_block_buffered(f, buf, r) == [file |-> f, buffer |-> Append(buf, r)]

\* writer.writerow(r) on the file opened with buffering=1: the row ends with a
\* newline, so the line buffering flushes the buffer to the file within the call
writerow(f, buf, r) == [file |-> f \o buf \o <<r>>, buffer |-> <<>>]

writer_check_exists ==
    /\ WriterAlive
    /\ pc_writer = "start"
    /\ write_header' = header_needed(file_exists)
    /\ pc_writer' = "open"
    /\ UNCHANGED <<turn, buffer, program, pc_main, cycles, history, net_io_prev, disk_io_prev, last_alert_time,
                   alert_threads, current, obs, log_queue, row, file_exists, file>>

\* open(LOG_FILE, "a", newline="", buffering=1): creates the file when absent
writer_open ==
    /\ WriterAlive
    /\ pc_writer = "open"
    /\ file_exists' = TRUE
    /\ pc_writer' = IF write_header THEN "header" ELSE "loop"
    /\ UNCHANGED <<turn, buffer, program, pc_main, cycles, history, net_io_prev, disk_io_prev, last_alert_time,
                   alert_threads, current, obs, log_queue, write_header, row, file>>

\* writer.writerow([...column names...]); line buffering flushes the row
writer_header ==
    /\ WriterAlive
    /\ pc_writer = "header"
    /\ file' = writerow(file, buffer, HEADER).file
    /\ buffer' = writerow(file, buffer, HEADER).buffer
    /\ pc_writer' = "loop"
    /\ UNCHANGED <<turn, program, pc_main, cycles, history, net_io_prev, disk_io_prev, last_alert_time,
                   alert_threads, current, obs, log_queue, write_header, row, file_exists>>

\* faulty variant: the loop takes a row without looking at the queue first
writer_poll_unchecked ==
    /\ WriterAlive
    /\ pc_writer = "loop"
    /\ pc_writer' = "pop"
    /\ UNCHANGED <<turn, buffer, program, pc_main, cycles, history, net_io_prev, disk_io_prev,
                   last_alert_time, alert_threads, current, obs, log_queue, write_header,
                   row, file_exists, file>>

\* if self.queue: found non-empty (found empty, the thread sleeps and looks again)
writer_poll ==
    /\ WriterAlive
    /\ pc_writer = "loop"
    /\ log_queue # <<>>
    /\ pc_writer' = "pop"
    /\ UNCHANGED <<turn, buffer, program, pc_main, cycles, history, net_io_prev, disk_io_prev, last_alert_time,
                   alert_threads, current, obs, log_queue, write_header, row, file_exists,
                   file>>

\* row = self.queue.popleft(): IndexError on an empty deque ends the thread
writer_pop ==
    /\ WriterAlive
    /\ pc_writer = "pop"
    /\ IF log_queue = <<>>
       THEN pc_writer' = "raised" /\ UNCHANGED <<program, row, log_queue>>
       ELSE /\ row' = Some(popleft(log_queue).item)
            /\ log_queue' = popleft(log_queue).rest
            /\ pc_writer' = "write"
    /\ UNCHANGED <<turn, buffer, program, pc_main, cycles, history, net_io_prev, disk_io_prev, last_alert_time,
                   alert_threads, current, obs, write_header, file_exists, file>>

\* writer.writerow(row), flushed by the line buffering; then time.sleep(0.1)
writer_write ==
    /\ WriterAlive
    /\ pc_writer = "write"
    /\ file' = writerow(file, buffer, row[1]).file
    /\ buffer' = writerow(file, buffer, row[1]).buffer
    /\ pc_writer' = "loop"
    /\ UNCHANGED <<turn, program, pc_main, cycles, history, net_io_prev, disk_io_prev, last_alert_time,
                   alert_threads, current, obs, log_queue, write_header, row, file_exists>>

writer_step ==
    \/ writer_check_exists
    \/ writer_open
    \/ writer_header
    \/ writer_poll
    \/ writer_pop
    \/ writer_write

\* The state main starts in, with the log file as it was left on disk
InitMain(exists, rows) ==
    /\ program = "terminal"
    /\ pc_main = "running"
    /\ cycles = 0
    /\ history = EmptyDict
    /\ net_io_prev = EmptyDict
    /\ disk_io_prev = EmptyDict
    /\ last_alert_time = 0
    /\ alert_threads = <<>>
    /\ current = [ts |-> 0, cpu |-> 0, ram |-> 0, disk |-> 0, net_sent |-> 0,
                  net_recv |-> 0, filtered_cpu |-> 0, filtered_ram |-> 0]
    /\ obs = Obs(0, 0, 0, 0, 0, 0, <<>>)
    /\ log_queue = <<>>
    /\ pc_writer = "start"
    /\ write_header = FALSE
    /\ row = None
    /\ file_exists = exists
    /\ file = rows
    /\ buffer = <<>>
    /\ turn = Turn(0, 0, 0)


----------------------------------------------------------------------------
(* collect_data and background_task of system_monitor.py *)

\* round(n / d, 0) for d > 0, ties to the even neighbour
RoundDiv(n, d) ==
    LET q == n \div d
        r == n % d
    IN  IF 2 * r < d THEN q
        ELSE IF 2 * r > d THEN q + 1
        ELSE IF q % 2 = 0 THEN q ELSE q + 1

\* faulty variant: the elapsed time is made positive and not floored at 0.1 s
\* when the clock stepped backwards
rate_abs_elapsed(cur, prev, elapsed) ==
    RoundDiv(((cur - prev) \div MB) * TICKS * 1000,
             IF elapsed < 0 THEN 0 - elapsed ELSE Max(elapsed, MIN_INTERVAL))

\* round((cur - prev) / (1024**2) / max(elapsed, 0.1), 3), in thousandths of a
\* MB/s; elapsed is in ticks
rate(cur, prev, elapsed) ==
    RoundDiv(((cur - prev) \div MB) * TICKS * 1000, Max(elapsed, MIN_INTERVAL))

\* One iteration of the "Top processes" loop: the bare except skips the process
top_step(processes, p) ==
    IF p.exc # "" THEN processes
    ELSE IF p.cpu = None THEN processes
    ELSE IF p.mem = None THEN processes
    ELSE Append(processes,
                [pid |-> p.pid, name |-> p.name, cpu |-> p.cpu[1], ram |-> p.mem[1] * 1024])

RECURSIVE top_loop(_, _)
top_loop(processes, procs) ==
    IF procs = <<>> THEN processes
    ELSE top_loop(top_step(processes, Head(procs)), Tail(procs))

\* sorted(processes, key=..., reverse=True): descending and stable, so items with
\* equal keys keep the order they were enumerated in
RECURSIVE insert_desc(_, _, _)
insert_desc(x, sorted, key) ==
    IF sorted = <<>> THEN <<x>>
    ELSE IF Head(sorted)[key] >= x[key]
         THEN <<Head(sorted)>> \o insert_desc(x, Tail(sorted), key)
         ELSE <<x>> \o sorted

RECURSIVE sorted_desc_from(_, _, _)
sorted_desc_from(acc, processes, key) ==
    IF processes = <<>> THEN acc
    ELSE sorted_desc_from(insert_desc(Head(processes), acc, key), Tail(processes), key)

sorted_desc(processes, key) == sorted_desc_from(<<>>, processes, key)

\* sorted(...)[:5]
top(processes, key) ==
    LET s == sorted_desc(processes, key)
    IN  IF Len(s) <= TOP_K THEN s ELSE SubSeq(s, 1, TOP_K)

\* One iteration of the "Filtered" loop: the bare except skips the rest of the
\* iteration, after f_cpu was added when memory_info is None
web_filtered_step(acc, p) ==
    IF p.exc # "" THEN acc
    ELSE IF PROCESS_FILTER # None /\ p.name = None THEN acc
    ELSE IF PROCESS_FILTER # None /\ ~NameMatches(PROCESS_FILTER, p.name) THEN acc
    ELSE IF p.mem = None
         THEN [acc EXCEPT !.cpu = @ + OrZero(p.cpu)]
         ELSE [acc EXCEPT !.cpu = @ + OrZero(p.cpu), !.ram = @ + p.mem[1]]

RECURSIVE web_filtered_loop(_, _)
web_filtered_loop(acc, procs) ==
    IF procs = <<>> THEN acc
    ELSE web_filtered_loop(web_filtered_step(acc, Head(procs)), Tail(procs))

web_filtered(procs) == web_filtered_loop([cpu |-> 0, ram |-> 0], procs)

WEB_HEADER ==
    [seq |-> 0,
     columns |-> <<"ts", "cpu%", "ram%", "ram_gb", "disk%", "net_sent", "net_recv",
                   "disk_read", "disk_write", "procs", "f_cpu%", "f_ram_gb">>]

\* with csv_lock: ... w.writerow(row): the file after the cycle's row is written
csv_write(exists, rows, new_row) ==
    IF header_needed(exists) THEN rows \o <<WEB_HEADER, new_row>> ELSE Append(rows, new_row)

\* the inputs of one cycle of the web monitor: those of Obs and the cumulative
\* disk counters
WebObs(t, cpu, ram, disk, sent, recv, read, write, procs) ==
    [t |-> t, cpu |-> cpu, ram |-> ram, disk |-> disk, sent |-> sent, recv |-> recv,
     read |-> read, write |-> write, procs |-> procs]

\* collect_data() of system_monitor.py: the state it leaves and what it returns
web_collect_data(in, n) ==
    LET elapsed_net  == in.t - net_io_prev["time"]
        sent_mbps    == rate(in.sent, net_io_prev["sent"], elapsed_net)
        recv_mbps    == rate(in.recv, net_io_prev["recv"], elapsed_net)
        elapsed_disk == in.t - disk_io_prev["time"]
        read_mbps    == rate(in.read, disk_io_prev["read"], elapsed_disk)
        write_mbps   == rate(in.write, disk_io_prev["write"], elapsed_disk)
        processes    == top_loop(<<>>, in.procs)
        f            == web_filtered(in.procs)
        ts           == in.t \div TICKS
        h            == history_push_all(history,
                           << <<"cpu", in.cpu>>, <<"ram", in.ram>>, <<"disk", in.disk>>,
                              <<"sent", sent_mbps>>, <<"recv", recv_mbps>>,
                              <<"read", read_mbps>>, <<"write", write_mbps>> >>)
        values       == [ts |-> ts, cpu |-> in.cpu, ram |-> in.ram, disk |-> in.disk,
                         sent |-> sent_mbps, recv |-> recv_mbps,
                         read |-> read_mbps, write |-> write_mbps,
                         f_cpu |-> f.cpu, f_ram |-> f.ram]
        alerts       == Alerts(in.cpu, in.ram, in.disk)
        gate         == gate_check(alerts, in.t, last_alert_time)
    IN  [net_io_prev |->
             store_reading(store_reading(store_reading(net_io_prev, "sent", in.sent),
                                         "recv", in.recv), "time", in.t),
         disk_io_prev |->
             store_reading(store_reading(store_reading(disk_io_prev, "read", in.read),
                                         "write", in.write), "time", in.t),
         history |-> h,
         file |-> csv_write(file_exists, file, [seq |-> n] @@ values),
         last_alert_time |-> gate.last,
         alert_threads |->
             IF gate.ok
             THEN Append(alert_threads, Thread_start(in.t, ts, alerts))
             ELSE alert_threads,
         current |-> values @@ [top_cpu |-> top(processes, "cpu"),
                                top_ram |-> top(processes, "ram")]]

\* time.sleep(REFRESH_INTERVAL), in ticks: the time the cycle took is not measured
background_sleep(elapsed) == REFRESH_INTERVAL * TICKS

\* One turn of background_task: collect_data(), socketio.emit, time.sleep; d is
\* the time collect_data and the emit took
web_cycle(t, cpu, ram, disk, sent, recv, read, write, procs, d) ==
    /\ program = "web"
    /\ pc_main = "running"
    /\ ~CallerWaits(alert_threads)
    /\ cycles < MaxCycles
    /\ LET in == WebObs(t, cpu, ram, disk, sent, recv, read, write, procs)
           r  == web_collect_data(in, cycles + 1)
       IN  /\ cycles' = cycles + 1
           /\ obs' = in
           /\ net_io_prev' = r.net_io_prev
           /\ disk_io_prev' = r.disk_io_prev
           /\ history' = r.history
           /\ file_exists' = TRUE
           /\ file' = r.file
           /\ last_alert_time' = r.last_alert_time
           /\ alert_threads' = r.alert_threads
           /\ current' = r.current
           /\ turn' = Turn(t, d, background_sleep(d))
    /\ UNCHANGED <<buffer, program, pc_main, log_queue, pc_writer, write_header, row>>

\* One turn of background_task in which the CSV write raises OSError (disk
\* full, file not writable): the statements before it have run, the alert
\* check after it has not, and the exception ends the background thread, which
\* has no handler.  open() may or may not have created the file.
web_cycle_write_fails(t, cpu, ram, disk, sent, recv, read, write, procs) ==
    /\ program = "web"
    /\ pc_main = "running"
    /\ ~CallerWaits(alert_threads)
    /\ cycles < MaxCycles
    /\ LET in == WebObs(t, cpu, ram, disk, sent, recv, read, write, procs)
           r  == web_collect_data(in, cycles + 1)
       IN  /\ cycles' = cycles + 1
           /\ obs' = in
           /\ net_io_prev' = r.net_io_prev
           /\ disk_io_prev' = r.disk_io_prev
           /\ history' = r.history
           /\ file_exists' \in {file_exists, TRUE}
           /\ pc_main' = "raised"
    /\ UNCHANGED <<turn, buffer, program, file, last_alert_time, alert_threads, current, log_queue,
                   pc_writer, write_header, row>>

\* The state the module is in once imported at clock reading t0, with the log
\* file as it was left on disk; there is no writer thread
InitWeb(t0, exists, rows) ==
    /\ program = "web"
    /\ pc_main = "running"
    /\ cycles = 0
    /\ history = EmptyDict
    /\ net_io_prev = [sent |-> 0, recv |-> 0, time |-> t0]
    /\ disk_io_prev = [read |-> 0, write |-> 0, time |-> t0]
    /\ last_alert_time = 0
    /\ alert_threads = <<>>
    /\ current = [ts |-> 0, cpu |-> 0, ram |-> 0, disk |-> 0, sent |-> 0, recv |-> 0,
                  read |-> 0, write |-> 0, f_cpu |-> 0, f_ram |-> 0,
                  top_cpu |-> <<>>, top_ram |-> <<>>]
    /\ obs = WebObs(t0, 0, 0, 0, 0, 0, 0, 0, <<>>)
    /\ log_queue = <<>>
    /\ pc_writer = "none"
    /\ write_header = FALSE
    /\ row = None
    /\ file_exists = exists
    /\ file = rows
    /\ buffer = <<>>
    /\ turn = Turn(0, 0, 0)

\* Either monitor is started, with no log file on disk
Init == InitMain(FALSE, <<>>) \/ InitWeb(0, FALSE, <<>>)

----------------------------------------------------------------------------
(* The process is killed and started again; the log file stays on disk *)

\* the process is killed: every thread stops where it is, what was flushed to
\* the file stays, what the file object still buffered is gone
crash ==
    /\ pc_main \in {"running", "exiting"}
    /\ pc_main' = "down"
    /\ buffer' = <<>>
    /\ UNCHANGED <<turn, program, cycles, history, net_io_prev, disk_io_prev, last_alert_time,
                   alert_threads, current, obs, log_queue, pc_writer, write_header,
                   row, file_exists, file>>

\* a new process: the module globals and the locals of main are built again
restart ==
    /\ pc_main \in {"down", "exited", "raised"}
    /\ pc_main' = "running"
    /\ history' = EmptyDict
    /\ last_alert_time' = 0
    /\ alert_threads' = <<>>
    /\ log_queue' = <<>>
    /\ write_header' = FALSE
    /\ row' = None
    /\ IF program = "terminal"
       THEN /\ net_io_prev' = EmptyDict
            /\ disk_io_prev' = EmptyDict
            /\ current' = [ts |-> 0, cpu |-> 0, ram |-> 0, disk |-> 0, net_sent |-> 0,
                           net_recv |-> 0, filtered_cpu |-> 0, filtered_ram |-> 0]
            /\ obs' = Obs(0, 0, 0, 0, 0, 0, <<>>)
            /\ pc_writer' = "start"
       ELSE /\ net_io_prev' = [sent |-> 0, recv |-> 0, time |-> 0]
            /\ disk_io_prev' = [read |-> 0, write |-> 0, time |-> 0]
            /\ current' = [ts |-> 0, cpu |-> 0, ram |-> 0, disk |-> 0, sent |-> 0,
                           recv |-> 0, read |-> 0, write |-> 0, f_cpu |-> 0, f_ram |-> 0,
                           top_cpu |-> <<>>, top_ram |-> <<>>]
            /\ obs' = WebObs(0, 0, 0, 0, 0, 0, 0, 0, <<>>)
            /\ pc_writer' = "none"
    /\ buffer' = <<>>
    /\ turn' = Turn(0, 0, 0)
    /\ UNCHANGED <<program, cycles, file_exists, file>>

----------------------------------------------------------------------------
(* The alert gate: cycles that differ in the clock and in the CPU load *)

\* clock readings, in ticks: 0 s, 100 s, 300 s, 599.9 s, 600 s
GateTimes == {0, 1000, 3000, 5999, 6000}
GateLoads == {90, 91}

GateCycle ==
    /\ cycles < MaxGateCycles
    /\ \E t \in GateTimes, cpu \in GateLoads : main_cycle(t, cpu, 50, 50, 0, 0, <<>>, 0)

WebGateCycle ==
    /\ cycles < MaxGateCycles
    /\ \E t \in GateTimes, cpu \in GateLoads : web_cycle(t, cpu, 50, 50, 0, 0, 0, 0, <<>>, 0)

NextGate == GateCycle \/ WebGateCycle \/ main_quit \/ process_exit

SpecGate == Init /\ [][NextGate]_vars

\* the clock readings at which the gate permitted a fire, oldest first
FireTimes == [i \in 1..Len(alert_threads) |-> alert_threads[i].at]

\* a step that is a completed sampling cycle with at least one metric over its threshold
BreachCycle ==
    /\ cycles' = cycles + 1
    /\ pc_main' = "running"
    /\ Alerts(obs'.cpu, obs'.ram, obs'.disk) # <<>>

\* the step started an alert thread
Fired == Len(alert_threads') = Len(alert_threads) + 1

\* C1: any two permitted fires of the gate are at least ALERT_COOLDOWN seconds
\* apart, whatever breaches happened in between.
C1_FiresApart ==
    \A i, j \in 1..Len(alert_threads) :
        i < j => FireTimes[j] - FireTimes[i] >= ALERT_COOLDOWN * TICKS

\* C1 witness: three breaching cycles, the middle one suppressed by the cooldown
C1_Witness ==
    /\ cycles = 3
    /\ "cpu" \in DOMAIN history
    /\ history["cpu"] = <<91, 91, 91>>
    /\ Len(alert_threads) = 2

\* C2: a breach check at time t fires exactly when the gate has never fired
\* before or t - last_fired_at >= cooldown (so a first breach at t = 0 fires).
C2_FiresIffNeverFiredOrCooled ==
    [][BreachCycle =>
        (Fired <=> (alert_threads = <<>>
                    \/ obs'.t - last_alert_time >= ALERT_COOLDOWN * TICKS))]_vars

\* a step that is a completed sampling cycle
CompletedCycle == cycles' = cycles + 1 /\ pc_main' = "running"

\* C17: a breach while the gate is cooling produces no notification and leaves
\* nothing behind; a cycle without a breach never notifies, whatever breached
\* before; a notification comes only from a cycle that itself breaches at or
\* after the end of the cooldown, and carries that cycle's time and values.
C17_CoolingBreachesForgotten ==
    [][/\ (BreachCycle /\ obs'.t - last_alert_time < ALERT_COOLDOWN * TICKS) =>
            /\ alert_threads' = alert_threads
            /\ last_alert_time' = last_alert_time
       /\ (CompletedCycle /\ ~BreachCycle) =>
            /\ alert_threads' = alert_threads
            /\ last_alert_time' = last_alert_time
       /\ Fired =>
            /\ BreachCycle
            /\ obs'.t - last_alert_time >= ALERT_COOLDOWN * TICKS
            /\ alert_threads'[Len(alert_threads')].at = obs'.t
            /\ \A i \in 1..Len(alert_threads'[Len(alert_threads')].alerts) :
                  alert_threads'[Len(alert_threads')].alerts[i].value = obs'.cpu]_vars

\* C17 witness: a fire at 300 s, a breach suppressed while cooling, then a
\* cycle at 600 s without a breach: still one notification
C17_Witness ==
    /\ cycles = 3
    /\ "cpu" \in DOMAIN history
    /\ history["cpu"] = <<91, 91, 90>>
    /\ obs.t = 6000
    /\ last_alert_time = 3000
    /\ Len(alert_threads) = 1

----------------------------------------------------------------------------
(* The rate computation: cycles that differ in the cumulative counters *)

Counters == {0, 40 * MB, 90 * MB, 100 * MB}

RateCycle ==
    /\ cycles < MaxRateCycles
    /\ \E sent \in Counters, recv \in {0, 40 * MB} :
           main_cycle(0, 50, 50, 50, sent, recv, <<>>, 0)

\* the web monitor divides by the time since the last cycle; its disk write
\* counter is fed the readings of the sent counter
RateTimes == {0, 10}

WebRateCycle ==
    /\ cycles < MaxRateCycles
    /\ \E t \in RateTimes, sent \in Counters :
           web_cycle(t, 50, 50, 50, sent, 0, 0, sent, <<>>, 0)

NextRate == RateCycle \/ WebRateCycle \/ main_quit \/ process_exit

SpecRate == Init /\ [][NextRate]_vars

\* the keys of the rates in the returned values, the history and the log rows
RateKeys ==
    IF program = "terminal" THEN {"net_sent", "net_recv"}
    ELSE {"sent", "recv", "read", "write"}

\* the log rows that exist: queued or in the file
LogRows == {log_queue[i] : i \in 1..Len(log_queue)} \cup {file[i] : i \in 1..Len(file)}

\* C3: every rate a cycle emits is >= 0, also when a cumulative counter reading
\* is lower than the previous one.
C3_RatesNonNegative ==
    \A k \in RateKeys :
        /\ current[k] >= 0
        /\ k \in DOMAIN history => \A i \in 1..Len(history[k]) : history[k][i] >= 0
        /\ \A r \in LogRows : ~IsHeader(r) => r[k] >= 0

\* C4: the first rate computation, with no stored prior reading, returns
\* exactly 0 and stores the reading as the baseline.
C4_FirstRateZero ==
    (cycles = 1 /\ pc_main = "running") =>
        /\ \A k \in RateKeys : current[k] = 0
        /\ net_io_prev["sent"] = obs.sent
        /\ net_io_prev["recv"] = obs.recv

\* C18: every rate computation stores the current reading (and, in the web
\* monitor, the current time) as the new baseline, also when the reading is
\* lower than the previous one, so the rate of the following cycle is computed
\* from the reading of the cycle before it.
C18_BaselineAlwaysStored ==
    [][CompletedCycle =>
          /\ net_io_prev'["sent"] = obs'.sent
          /\ net_io_prev'["recv"] = obs'.recv
          /\ program = "web" =>
                /\ net_io_prev'["time"] = obs'.t
                /\ disk_io_prev' = [read |-> obs'.read, write |-> obs'.write, time |-> obs'.t]
          /\ cycles >= 1 =>
                IF program = "terminal"
                THEN /\ current'.net_sent * MB = obs'.sent - obs.sent
                     /\ current'.net_recv * MB = obs'.recv - obs.recv
                ELSE LET d == Max(obs'.t - obs.t, MIN_INTERVAL)
                     IN  /\ current'.sent =
                               RoundDiv(((obs'.sent - obs.sent) \div MB) * TICKS * 1000, d)
                         /\ current'.write =
                               RoundDiv(((obs'.write - obs.write) \div MB) * TICKS * 1000, d)]_vars

\* C18 witness: readings of 100 MB, 40 MB and 90 MB: the cycle after the lower
\* reading reports 50 MB, counted from 40 MB
C18_Witness ==
    /\ program = "terminal"
    /\ cycles = 3
    /\ "net_sent" \in DOMAIN history
    /\ history["net_sent"] = <<100, -60, 50>>
    /\ net_io_prev["sent"] = 90 * MB

\* v is n / d rounded to the nearest whole number
IsQuotient(v, n, d) ==
    /\ 2 * (v * d - n) <= d
    /\ 2 * (n - v * d) <= d

----------------------------------------------------------------------------
(* The history buffers: cycles that differ in the CPU load *)

HistValues == 1..(MAX_HISTORY + 1)

HistCycle == \E cpu \in HistValues : main_cycle(0, cpu, 50, 50, 0, 0, <<>>, 0)

WebHistCycle == \E cpu \in HistValues : web_cycle(0, cpu, 50, 50, 0, 0, 0, 0, <<>>, 0)

NextHist == HistCycle \/ WebHistCycle \/ main_quit \/ process_exit

SpecHist == Init /\ [][NextHist]_vars

HistoryKeys ==
    IF program = "terminal"
    THEN {"cpu", "ram", "disk", "net_sent", "net_recv", "filtered_cpu", "filtered_ram"}
    ELSE {"cpu", "ram", "disk", "sent", "recv", "read", "write"}

\* the last n items of s
LastN(s, n) == IF Len(s) <= n THEN s ELSE SubSeq(s, Len(s) - n + 1, Len(s))

\* C9: a history buffer never holds more than MAX_HISTORY values; a push onto
\* a full buffer evicts the oldest value and keeps the rest oldest to newest;
\* a buffer is created by the first push of its key.
C9_HistoryBounded ==
    [][(cycles' = cycles + 1 /\ pc_main' = "running") =>
          /\ DOMAIN history' = HistoryKeys
          /\ \A k \in HistoryKeys :
                /\ Len(history'[k]) <= MAX_HISTORY
                /\ history'[k] = LastN(DictGet(history, k, <<>>) \o <<current'[k]>>, MAX_HISTORY)
          /\ (cycles = 0 => history = EmptyDict /\ \A k \in HistoryKeys : Len(history'[k]) = 1)]_vars

\* C9 witness: MAX_HISTORY + 1 pushes 1, 2, ... left 2, 3, ... in the cpu buffer
C9_Witness ==
    /\ cycles = MAX_HISTORY + 1
    /\ "cpu" \in DOMAIN history
    /\ history["cpu"] = [i \in 1..MAX_HISTORY |-> i + 1]

----------------------------------------------------------------------------
(* The log pipeline: the sampler, the writer thread and the exit of the process *)

LogCycle == main_cycle(0, 50, 50, 50, 0, 0, <<>>, 0)

WebLogCycle == web_cycle(0, 50, 50, 50, 0, 0, 0, 0, <<>>, 0)

NextLog == LogCycle \/ WebLogCycle \/ main_quit \/ process_exit \/ writer_step

SpecLog == Init /\ [][NextLog]_vars

\* the data rows of the file, in file order
RECURSIVE DataRows(_)
DataRows(f) ==
    IF f = <<>> THEN <<>>
    ELSE IF IsHeader(Head(f)) THEN DataRows(Tail(f))
    ELSE <<Head(f)>> \o DataRows(Tail(f))

\* the stamp of the row the writer took last (0: none yet)
LastTaken == IF row = None THEN 0 ELSE row[1].seq

Min(a, b) == IF a <= b THEN a ELSE b

\* C5: the queue never holds more than its capacity, and an enqueue on a full
\* queue drops the oldest record and keeps the newest: the queue always holds
\* the newest records generated since the writer last took one, up to capacity.
C5_QueueKeepsNewest ==
    program = "terminal" =>
        /\ Len(log_queue) <= LOG_QUEUE_MAXLEN
        /\ Len(log_queue) = Min(LOG_QUEUE_MAXLEN, cycles - LastTaken)
        /\ \A i \in 1..Len(log_queue) : log_queue[i].seq = cycles - Len(log_queue) + i

\* C5 witness: capacity + 1 records enqueued before the writer took any; the
\* first is gone and the queue holds the rest
C5_Witness ==
    /\ cycles = LOG_QUEUE_MAXLEN + 1
    /\ row = None
    /\ Len(log_queue) = LOG_QUEUE_MAXLEN
    /\ log_queue[1].seq = 2
    /\ log_queue[LOG_QUEUE_MAXLEN].seq = LOG_QUEUE_MAXLEN + 1

\* C6: the rows of the file are in generation order: a subsequence of the
\* generated rows, none twice, no two swapped.
C6_FileInGenerationOrder ==
    LET d == DataRows(file)
    IN  /\ \A i \in 1..Len(d) : d[i].seq \in 1..cycles
        /\ \A i, j \in 1..Len(d) : i < j => d[i].seq < d[j].seq

\* C6 witness: the writer wrote a row, a later row was dropped from the full
\* queue meanwhile, and the writer wrote the one after it
C6_Witness ==
    LET d == DataRows(file)
    IN  \E i \in 1..Len(d) : i < Len(d) /\ d[i + 1].seq > d[i].seq + 1

\* C7: under normal load (the queue never reaches capacity) every record a
\* cycle produced is eventually in the log file: none is missing once the
\* process has ended.
C7_EveryRecordWritten ==
    (program = "terminal" /\ pc_main = "exited" /\ cycles < LOG_QUEUE_MAXLEN) =>
        \A n \in 1..cycles : \E i \in 1..Len(file) : file[i].seq = n

\* C23: the writer never removes a record from an empty queue: between its
\* non-emptiness check and its popleft no enqueue of the sampler, evicting or
\* not, leaves the queue empty, so popleft never raises.
C23_NeverPopsEmpty ==
    /\ pc_writer = "pop" => log_queue # <<>>
    /\ pc_writer # "raised"

\* C23 witness: the writer is between its check and its first popleft while
\* the full queue has already evicted its oldest record
C23_Witness ==
    /\ pc_writer = "pop"
    /\ row = None
    /\ cycles = LOG_QUEUE_MAXLEN + 1
    /\ Len(log_queue) = LOG_QUEUE_MAXLEN
    /\ log_queue[1].seq = 2

\* C13: when the operator quits, every record still in the log queue is
\* written to the file before the process exits: at exit the queue is empty
\* and the writer holds no record it has taken and not written.
C13_QueueDrainedAtExit ==
    (program = "terminal" /\ pc_main = "exited") =>
        /\ log_queue = <<>>
        /\ pc_writer # "write"

\* The stamps of the evicted records that main has surfaced.  main calls
\* log_queue.append(result["csv_row"]) on a deque(maxlen=1000) and does nothing
\* else with the queue: it reads no length, keeps no counter and prints no line.
drops_surfaced == {}

\* the stamps of the records that were evicted from the full queue: generated,
\* and neither queued, nor held by the writer, nor in the file
Evicted ==
    {n \in 1..cycles :
        /\ \A i \in 1..Len(log_queue) : log_queue[i].seq # n
        /\ \A i \in 1..Len(file) : file[i].seq # n
        /\ ~(pc_writer = "write" /\ row # None /\ row[1].seq = n)}

\* C16: every record dropped because the log queue was full is surfaced (the
\* drops recorded are exactly the records evicted), and the drop is never
\* raised to the enqueuing caller.
C16_DropsSurfaced ==
    program = "terminal" =>
        /\ drops_surfaced = Evicted
        /\ pc_main # "raised"

----------------------------------------------------------------------------
(* The log file across crashes and restarts *)

NextCrash ==
    LogCycle \/ WebLogCycle \/ main_quit \/ process_exit \/ writer_step \/ crash \/ restart

SpecCrash == Init /\ [][NextCrash]_vars

\* C8: after any sequence of starts, row writes, crashes and restarts the log
\* file holds exactly one header row, and it is the first row.
C8_OneHeaderFirst ==
    file # <<>> =>
        /\ IsHeader(file[1])
        /\ \A i \in 2..Len(file) : ~IsHeader(file[i])

\* the row is in the file on disk
InFile(r) == \E i \in 1..Len(file) : file[i] = r

\* C22: each row the writer appends is flushed to the file before the next
\* row is taken from the queue, and a crash keeps what was flushed: when the
\* writer takes a row, the row it took before is in the file; no written row
\* stays in a buffer; the file only grows; in the web monitor the row of a
\* cycle is in the file when the cycle ends.
C22_FlushedPerRow ==
    [][/\ (pc_writer = "pop" /\ pc_writer' = "write") => (row = None \/ InFile(row[1]))
       /\ buffer' = <<>>
       /\ Len(file') >= Len(file)
       /\ SubSeq(file', 1, Len(file)) = file
       /\ (program = "web" /\ CompletedCycle) =>
             file'[Len(file')].seq = cycles']_vars

\* C22 witness: the process was killed while the writer held the second row:
\* the first row is in the file, the one in flight is the only one missing
C22_Witness ==
    /\ program = "terminal"
    /\ pc_main = "down"
    /\ pc_writer = "write"
    /\ cycles = 2
    /\ row # None
    /\ row[1].seq = 2
    /\ log_queue = <<>>
    /\ DataRows(file) # <<>>
    /\ DataRows(file)[Len(DataRows(file))].seq = 1

----------------------------------------------------------------------------
(* Process enumeration: cycles that differ in what the process reads return *)

ProcChoices ==
    {ProcInfo(1, Some("init"), Some(5), Some(1), ""),
     ProcInfo(2, Some("idle"), None, Some(2), ""),
     ProcInfo(3, Some("root"), Some(7), None, ""),
     ProcInfo(4, Some("gone"), None, None, "NoSuchProcess")}

ProcLists ==
    {<<>>} \cup {<<p>> : p \in ProcChoices}
    \cup {pq \in ProcChoices \X ProcChoices : pq[1] # pq[2]}

ProcCycle ==
    /\ cycles < MaxProcCycles
    /\ \E procs \in ProcLists : main_cycle(0, 50, 50, 50, 0, 0, procs, 0)

WebProcCycle ==
    /\ cycles < MaxProcCycles
    /\ \E procs \in ProcLists : web_cycle(0, 50, 50, 50, 0, 0, 0, 0, procs, 0)

NextProc == ProcCycle \/ WebProcCycle \/ main_quit \/ process_exit

SpecProc == Init /\ [][NextProc]_vars

\* the read of the process failed
FailedRead(p) == p.exc # "" \/ p.mem = None

RECURSIVE SumReadable(_, _)
SumReadable(procs, field) ==
    IF procs = <<>> THEN 0
    ELSE (IF FailedRead(Head(procs)) THEN 0 ELSE OrZero(Head(procs)[field]))
         + SumReadable(Tail(procs), field)

\* the filtered aggregates the last cycle returned
FilteredCpu == IF program = "terminal" THEN current.filtered_cpu ELSE current.f_cpu
FilteredRam == IF program = "terminal" THEN current.filtered_ram ELSE current.f_ram

\* the rows handed to the log, oldest first
Logged == IF program = "terminal" THEN log_queue ELSE file

\* C10: when the read of one process fails, that process is excluded from the
\* aggregates and the cycle still completes: it pushes its history values and
\* produces its log row.
C10_FailedReadSkipped ==
    (cycles >= 1 /\ \E i \in 1..Len(obs.procs) : FailedRead(obs.procs[i])) =>
        /\ pc_main # "raised"
        /\ FilteredCpu = SumReadable(obs.procs, "cpu")
        /\ FilteredRam = SumReadable(obs.procs, "mem")
        /\ Logged # <<>>
        /\ Logged[Len(Logged)].seq = cycles
        /\ \A k \in HistoryKeys : k \in DOMAIN history /\ history[k] # <<>>

----------------------------------------------------------------------------
(* The alert threads: cycles that differ in the clock and in the three loads *)

\* cycles explored where the alert threads run
MaxAlertCycles == 2

\* clock readings, in ticks: 300 s, 400 s, 600 s
AlertTimes == {3000, 4000, 6000}

\* <<cpu, ram, disk>>: none, one, two and all three over their thresholds, and
\* all three at their thresholds
AlertLoads ==
    {<<50, 50, 50>>, <<90, 90, 95>>, <<50, 91, 50>>, <<91, 50, 96>>, <<91, 91, 96>>}

AlertCycle ==
    /\ cycles < MaxAlertCycles
    /\ \E t \in AlertTimes, l \in AlertLoads : main_cycle(t, l[1], l[2], l[3], 0, 0, <<>>, 0)

WebAlertCycle ==
    /\ cycles < MaxAlertCycles
    /\ \E t \in AlertTimes, l \in AlertLoads :
           web_cycle(t, l[1], l[2], l[3], 0, 0, 0, 0, <<>>, 0)

NextAlert == AlertCycle \/ WebAlertCycle \/ alert_thread_step \/ main_quit \/ process_exit

SpecAlert == Init /\ [][NextAlert]_vars

\* the step in which the transport raised in some alert thread
SendFailed ==
    \E i \in 1..Len(alert_threads) :
        alert_threads[i].state = "sending" /\ alert_threads'[i].state = "failed"

\* C11: when the transport fails, the gate keeps the stamp of the permitted
\* fire, the sampler keeps running, and the send is not retried: no thread
\* calls the transport twice, and the next call comes from a new fire, in a
\* breaching cycle at least ALERT_COOLDOWN after the failed one.
C11_FailedSendNotRetried ==
    [][/\ SendFailed =>
            /\ last_alert_time' = last_alert_time
            /\ last_alert_time' = alert_threads'[Len(alert_threads')].at
            /\ pc_main' = pc_main
            /\ Len(alert_threads') = Len(alert_threads)
       /\ \A i \in 1..Len(alert_threads') : alert_threads'[i].tries <= 1
       /\ \A i \in 1..Len(alert_threads) :
             alert_threads[i].state = "failed" =>
                /\ alert_threads'[i] = alert_threads[i]
                /\ Fired => /\ BreachCycle
                            /\ obs'.t - alert_threads[i].at >= ALERT_COOLDOWN * TICKS]_vars

\* C11 witness: the first send failed, the next cycle breached 100 s after the
\* fire, and no second thread exists
C11_Witness ==
    /\ cycles = 2
    /\ Len(alert_threads) = 1
    /\ alert_threads[1].state = "failed"
    /\ alert_threads[1].at = 3000
    /\ obs.t = 4000
    /\ Alerts(obs.cpu, obs.ram, obs.disk) # <<>>
    /\ pc_main = "running"

\* some alert thread has not finished: it has not run yet, or the transport
\* has not returned
SendPending ==
    \E i \in 1..Len(alert_threads) : alert_threads[i].state \in {"started", "sending"}

\* C12: a permitted fire hands the notification to a thread of its own and the
\* cycle completes without waiting for it: in the step of the fire the cycle
\* ends with its record handed to the log, the transport has not been called
\* yet, and no send that has not returned holds the sampler back from its
\* next cycle.
C12_CycleDoesNotWait ==
    [][Fired =>
          /\ cycles' = cycles + 1
          /\ pc_main' = "running"
          /\ IF program = "terminal"
             THEN log_queue'[Len(log_queue')].seq = cycles'
             ELSE file'[Len(file')].seq = cycles'
          /\ alert_threads'[Len(alert_threads')].state = "started"
          /\ alert_threads'[Len(alert_threads')].tries = 0
          /\ ~CallerWaits(alert_threads')]_vars

\* C12 witness: the thread of the first cycle is still inside the transport
\* after the second cycle completed
C12_Witness ==
    /\ cycles = 2
    /\ Len(alert_threads) = 1
    /\ alert_threads[1].state = "sending"
    /\ alert_threads[1].at = 3000
    /\ obs.t = 4000
    /\ Len(history["cpu"]) = 2

\* C24: only a permitted fire changes the gate's timestamp: a cycle in which
\* no metric is above its threshold leaves it unchanged, the alert threads
\* never change it, and when it changes a breaching cycle has fired and set
\* it to that cycle's clock reading.
C24_OnlyFireStampsGate ==
    [][/\ (CompletedCycle /\ ~BreachCycle) => last_alert_time' = last_alert_time
       /\ alert_threads' # alert_threads /\ ~Fired => last_alert_time' = last_alert_time
       /\ last_alert_time' # last_alert_time =>
             /\ Fired
             /\ BreachCycle
             /\ last_alert_time' = obs'.t]_vars

\* C24 witness: a fire at 300 s whose send has ended, then a cycle at 600 s
\* without a breach: the timestamp is still that of the fire
C24_Witness ==
    /\ cycles = 2
    /\ Len(alert_threads) = 1
    /\ alert_threads[1].state \in {"sent", "failed"}
    /\ obs.t = 6000
    /\ Alerts(obs.cpu, obs.ram, obs.disk) = <<>>
    /\ last_alert_time = 3000

\* the metrics an alert can name, the value a cycle read for each and its threshold
Metrics == {"CPU", "RAM", "Disk"}
MetricValue(o, m) == IF m = "CPU" THEN o.cpu ELSE IF m = "RAM" THEN o.ram ELSE o.disk
MetricThreshold(m) ==
    IF m = "CPU" THEN CPU_THRESHOLD ELSE IF m = "RAM" THEN RAM_THRESHOLD ELSE DISK_THRESHOLD

\* C15: on a permitted fire the body of the notification lists every metric
\* among CPU, RAM and disk whose value is strictly above its threshold in that
\* cycle, each once and with the value of that cycle, and no other metric.
C15_BodyListsAllBreaches ==
    [][Fired =>
          LET lines == alert_threads'[Len(alert_threads')].alerts
              over  == {m \in Metrics : MetricValue(obs', m) > MetricThreshold(m)}
          IN  /\ {lines[i].metric : i \in 1..Len(lines)} = over
              /\ Len(lines) = Cardinality(over)
              /\ \A i \in 1..Len(lines) :
                    lines[i].value = MetricValue(obs', lines[i].metric)]_vars

\* C15 witness: a fire in a cycle with CPU and disk over their thresholds and
\* RAM not: the body names CPU and Disk
C15_Witness ==
    /\ cycles = 1
    /\ obs.cpu > CPU_THRESHOLD /\ obs.ram <= RAM_THRESHOLD /\ obs.disk > DISK_THRESHOLD
    /\ Len(alert_threads) = 1
    /\ Len(alert_threads[1].alerts) = 2
    /\ alert_threads[1].alerts[1].metric = "CPU"
    /\ alert_threads[1].alerts[2].metric = "Disk"

----------------------------------------------------------------------------
(* The top lists of the web monitor: cycles that differ in the processes and
   in the order they are enumerated in *)

\* cycles explored where the enumeration order varies
MaxTopCycles == 2

\* pid 1 and pid 2 have equal CPU, pid 1 and pid 3 equal resident size
TopChoices ==
    {ProcInfo(1, Some("one"), Some(5), Some(1), ""),
     ProcInfo(2, Some("two"), Some(5), Some(2), ""),
     ProcInfo(3, Some("three"), Some(9), Some(1), "")}

\* more processes than the lists hold, in ascending order of pid
ManyProcs == [i \in 1..(TOP_K + 1) |-> ProcInfo(i, Some("p"), Some(i), Some(i), "")]

\* every enumeration order of every subset of TopChoices, and ManyProcs
TopLists ==
    {<<>>, ManyProcs} \cup {<<p>> : p \in TopChoices}
    \cup {pq \in TopChoices \X TopChoices : pq[1] # pq[2]}
    \cup {pqr \in TopChoices \X TopChoices \X TopChoices :
             pqr[1] # pqr[2] /\ pqr[1] # pqr[3] /\ pqr[2] # pqr[3]}

WebTopCycle ==
    /\ cycles < MaxTopCycles
    /\ \E procs \in TopLists : web_cycle(0, 50, 50, 50, 0, 0, 0, 0, procs, 0)

NextTop == WebTopCycle

SpecTop == InitWeb(0, FALSE, <<>>) /\ [][NextTop]_vars

\* l has at most TOP_K entries, descending by key, equal keys by ascending pid
TopOrdered(l, key) ==
    /\ Len(l) <= TOP_K
    /\ \A i, j \in 1..Len(l) :
          i < j => \/ l[i][key] > l[j][key]
                   \/ l[i][key] = l[j][key] /\ l[i].pid < l[j].pid

----------------------------------------------------------------------------
(* The order of the steps of a cycle: cycles where the hand-off to the log
   can fail *)

\* cycles explored where the CSV write can fail
MaxOrderCycles == 3

\* clock readings, in ticks: 300 s, 600 s
OrderTimes == {3000, 6000}

OrderCycle ==
    /\ cycles < MaxOrderCycles
    /\ \E t \in OrderTimes, cpu \in GateLoads : main_cycle(t, cpu, 50, 50, 0, 0, <<>>, 0)

WebOrderCycle ==
    /\ cycles < MaxOrderCycles
    /\ \E t \in OrderTimes, cpu \in GateLoads : web_cycle(t, cpu, 50, 50, 0, 0, 0, 0, <<>>, 0)

WebOrderWriteFails ==
    /\ cycles < MaxOrderCycles
    /\ \E t \in OrderTimes, cpu \in GateLoads :
           web_cycle_write_fails(t, cpu, 50, 50, 0, 0, 0, 0, <<>>)

NextOrder == OrderCycle \/ WebOrderCycle \/ WebOrderWriteFails \/ main_quit \/ process_exit

SpecOrder == Init /\ [][NextOrder]_vars

\* the step is a cycle that reached the hand-off of its record to the log: the
\* record was queued or written, or the write was tried and raised
LogReached ==
    /\ cycles' = cycles + 1
    /\ IF program = "terminal"
       THEN log_queue' # <<>> /\ log_queue'[Len(log_queue')].seq = cycles'
       ELSE \/ file' # <<>> /\ file'[Len(file')].seq = cycles'
            \/ pc_main' = "raised"

\* the step is a cycle whose values the history holds as its newest
HistoryPushed ==
    /\ cycles' = cycles + 1
    /\ \A k \in {"cpu", "ram", "disk"} :
          /\ k \in DOMAIN history'
          /\ history'[k] # <<>>
          /\ history'[k][Len(history'[k])] = obs'[k]

\* C20: within one cycle the history push precedes the alert threshold
\* evaluation, and the evaluation precedes the hand-off of the record to the
\* log: a cycle that fired has pushed its history, and a cycle that reached
\* the hand-off has pushed its history and evaluated its alerts, so a breach
\* with the gate open has fired.
C20_HistoryAlertsLog ==
    [][/\ Fired => HistoryPushed
       /\ LogReached =>
            /\ HistoryPushed
            /\ (/\ Alerts(obs'.cpu, obs'.ram, obs'.disk) # <<>>
                /\ obs'.t - last_alert_time >= ALERT_COOLDOWN * TICKS) => Fired]_vars

----------------------------------------------------------------------------
(* The schedule of the sampler: cycles that differ in how long they take *)

\* cycles explored where the duration of a cycle varies
MaxTimingCycles == 3

\* how long a cycle takes, in ticks: no time, 0.5 s, 1 s, 1.5 s
Durations == {0, 5, 10, 15}

\* the clock reading at which the sleep of the last turn ends and the next
\* turn starts (the clock is not set while the monitor runs)
NextStart == turn.start_time + turn.elapsed + turn.slept

TimedCycle ==
    /\ cycles < MaxTimingCycles
    /\ \E d \in Durations : main_cycle(NextStart, 50, 50, 50, 0, 0, <<>>, d)

WebTimedCycle ==
    /\ cycles < MaxTimingCycles
    /\ \E d \in Durations : web_cycle(NextStart, 50, 50, 50, 0, 0, 0, 0, <<>>, d)

NextTiming == TimedCycle \/ WebTimedCycle \/ main_quit \/ process_exit

SpecTiming == Init /\ [][NextTiming]_vars

\* C21: after a cycle that took d the sampler sleeps max(0, REFRESH_INTERVAL - d)
\* before the next cycle: the time from one cycle start to the next is
\* REFRESH_INTERVAL when d <= REFRESH_INTERVAL and d otherwise.
C21_SleepsRestOfInterval ==
    [][(CompletedCycle /\ cycles >= 1) =>
          /\ turn.slept = IF turn.elapsed <= REFRESH_INTERVAL * TICKS
                          THEN REFRESH_INTERVAL * TICKS - turn.elapsed
                          ELSE 0
          /\ turn'.start_time - turn.start_time =
                IF turn.elapsed <= REFRESH_INTERVAL * TICKS
                THEN REFRESH_INTERVAL * TICKS
                ELSE turn.elapsed]_vars

====
